---- MODULE Spec2Model ----
(***************************************************************************)
(* Model of the include-oracle-sql-args proc-macro crate (src/lib.rs).     *)
(*                                                                         *)
(* The crate is a pure compile-time transformation: `map!` parses its      *)
(* invocation tokens into (method_args, sql_args) and emits one output     *)
(* expression.  Token streams are sequences of token records, identifiers  *)
(* are sequences of one-character strings, and the parser and the emitter  *)
(* are operators computed the way the code computes them.  One expansion   *)
(* is one behaviour: Init draws the invocation, MapMacro expands it.       *)
(***************************************************************************)
EXTENDS Integers, Sequences, FiniteSets, TLC

VARIABLES input, pc, method_args, sql_args, result, tokens

vars == <<input, pc, method_args, sql_args, result, tokens>>

(***************************************************************************)
(* Bounds of the checked input space.                                      *)
(***************************************************************************)
MaxArgs == 3
MaxRefs == 3
MaxTokens == 4
MaxEditArgs == 1
MaxEditRefs == 2

(***************************************************************************)
(* Tokens.  Every token is a record of the same three fields so that any   *)
(* two tokens can be compared.                                             *)
(***************************************************************************)
IdentTok(name) == [kind |-> "ident", text |-> name, stream |-> <<>>]
LitStrTok(s) == [kind |-> "lit_str", text |-> s, stream |-> <<>>]
PunctTok(k) == [kind |-> k, text |-> <<>>, stream |-> <<>>]
GroupTok(items) == [kind |-> "group", text |-> <<>>, stream |-> items]

FatArrow == PunctTok("fat_arrow")
Colon == PunctTok("colon")
Pound == PunctTok("pound")
Comma == PunctTok("comma")
Other == PunctTok("other")
SqlText == LitStrTok(<<"s", "q", "l">>)

a1 == <<"a", "1">>
a2 == <<"a", "2">>
a3 == <<"a", "3">>
name == <<"n", "a", "m", "e">>
Idents == {a1, a2, a3}
Markers == {Colon, Pound}

(***************************************************************************)
(* str::to_uppercase: every char is replaced by its uppercase expansion,   *)
(* which may be longer than one char.  The chars of the model are the      *)
(* ASCII letters, the digits, the underscore and the sharp s; a char that  *)
(* has no uppercase form (a digit, the underscore, an uppercase letter) is *)
(* kept.                                                                   *)
(***************************************************************************)
LowerCase ==
    <<"a", "b", "c", "d", "e", "f", "g", "h", "i", "j", "k", "l", "m",
      "n", "o", "p", "q", "r", "s", "t", "u", "v", "w", "x", "y", "z">>
UpperCase ==
    <<"A", "B", "C", "D", "E", "F", "G", "H", "I", "J", "K", "L", "M",
      "N", "O", "P", "Q", "R", "S", "T", "U", "V", "W", "X", "Y", "Z">>
Unchanged == {UpperCase[i] : i \in 1..26}
             \cup {"0", "1", "2", "3", "4", "5", "6", "7", "8", "9", "_"}

UpperChar(c) ==
    IF \E i \in 1..26 : LowerCase[i] = c
    THEN <<UpperCase[CHOOSE i \in 1..26 : LowerCase[i] = c]>>
    ELSE IF c = "ß" THEN <<"S", "S">>
    ELSE IF c \in Unchanged THEN <<c>>
    ELSE CHOOSE u \in {} : TRUE

\* Variant: the name is taken as spelled, without uppercasing.
ToUppercaseAsSpelled(s) == s

RECURSIVE ToUppercase(_)
ToUppercase(s) ==
    IF s = <<>> THEN <<>> ELSE UpperChar(Head(s)) \o ToUppercase(Tail(s))

(***************************************************************************)
(* ParseStream primitives over (toks, pos): pos is the cursor, 1-based.    *)
(***************************************************************************)
IsEmpty(toks, pos) == pos > Len(toks)
Peek(toks, pos, k) == pos <= Len(toks) /\ toks[pos].kind = k

ParseOk(margs, sargs) ==
    [ok |-> TRUE, method_args |-> margs, sql_args |-> sargs, at |-> 0]
ParseErr(pos) ==
    [ok |-> FALSE, method_args |-> <<>>, sql_args |-> <<>>, at |-> pos]

\* Variant: only by-value (`:`) placeholders enter the Reference List.
RECURSIVE ParseBodyValueOnly(_, _, _, _)
ParseBodyValueOnly(toks, pos, margs, sargs) ==
    IF IsEmpty(toks, pos) THEN ParseOk(margs, sargs)
    ELSE IF ~Peek(toks, pos, "lit_str") THEN ParseErr(pos)
    ELSE IF IsEmpty(toks, pos + 1) THEN ParseOk(margs, sargs)
    ELSE IF ~(Peek(toks, pos + 1, "colon") \/ Peek(toks, pos + 1, "pound"))
         THEN ParseErr(pos + 1)
    ELSE IF ~Peek(toks, pos + 2, "ident") THEN ParseErr(pos + 2)
    ELSE ParseBodyValueOnly(toks, pos + 3, margs,
            IF Peek(toks, pos + 1, "colon")
            THEN Append(sargs, toks[pos + 2].text) ELSE sargs)

\* Variant: an identifier that is already in the Reference List is not
\* added again.
RECURSIVE ParseBodyDedup(_, _, _, _)
ParseBodyDedup(toks, pos, margs, sargs) ==
    IF IsEmpty(toks, pos) THEN ParseOk(margs, sargs)
    ELSE IF ~Peek(toks, pos, "lit_str") THEN ParseErr(pos)
    ELSE IF IsEmpty(toks, pos + 1) THEN ParseOk(margs, sargs)
    ELSE IF ~(Peek(toks, pos + 1, "colon") \/ Peek(toks, pos + 1, "pound"))
         THEN ParseErr(pos + 1)
    ELSE IF ~Peek(toks, pos + 2, "ident") THEN ParseErr(pos + 2)
    ELSE ParseBodyDedup(toks, pos + 3, margs,
            IF \E i \in 1..Len(sargs) : sargs[i] = toks[pos + 2].text
            THEN sargs ELSE Append(sargs, toks[pos + 2].text))

\* Variant: the literal before a placeholder is optional.
RECURSIVE ParseBodyOptionalLiteral(_, _, _, _)
ParseBodyOptionalLiteral(toks, pos, margs, sargs) ==
    IF IsEmpty(toks, pos) THEN ParseOk(margs, sargs)
    ELSE LET p == IF Peek(toks, pos, "lit_str") THEN pos + 1 ELSE pos
         IN  IF IsEmpty(toks, p) THEN ParseOk(margs, sargs)
             ELSE IF ~(Peek(toks, p, "colon") \/ Peek(toks, p, "pound"))
                  THEN ParseErr(p)
             ELSE IF ~Peek(toks, p + 1, "ident") THEN ParseErr(p + 1)
             ELSE ParseBodyOptionalLiteral(toks, p + 2, margs,
                                           Append(sargs, toks[p + 1].text))

(***************************************************************************)
(* Body loop of MapArgs::parse.                                            *)
(***************************************************************************)
RECURSIVE ParseBody(_, _, _, _)
ParseBody(toks, pos, margs, sargs) ==
    IF IsEmpty(toks, pos) THEN ParseOk(margs, sargs)
    ELSE IF ~Peek(toks, pos, "lit_str") THEN ParseErr(pos)
    ELSE IF IsEmpty(toks, pos + 1) THEN ParseOk(margs, sargs)
    ELSE IF ~(Peek(toks, pos + 1, "colon") \/ Peek(toks, pos + 1, "pound"))
         THEN ParseErr(pos + 1)
    ELSE IF ~Peek(toks, pos + 2, "ident") THEN ParseErr(pos + 2)
    ELSE ParseBody(toks, pos + 3, margs, Append(sargs, toks[pos + 2].text))

\* Variant: the header loop also stops at the end of the input, and a
\* missing `=>` leaves an empty template.
RECURSIVE ParseHeaderEndOfInput(_, _, _)
ParseHeaderEndOfInput(toks, pos, margs) ==
    IF IsEmpty(toks, pos) THEN ParseOk(margs, <<>>)
    ELSE IF Peek(toks, pos, "fat_arrow") THEN ParseBody(toks, pos + 1, margs, <<>>)
    ELSE IF ~Peek(toks, pos, "ident") THEN ParseErr(pos)
    ELSE ParseHeaderEndOfInput(toks, pos + 1, Append(margs, toks[pos].text))

(***************************************************************************)
(* Header loop of MapArgs::parse, then the `=>` token, then the body.      *)
(***************************************************************************)
RECURSIVE ParseHeader(_, _, _)
ParseHeader(toks, pos, margs) ==
    IF Peek(toks, pos, "fat_arrow") THEN ParseBody(toks, pos + 1, margs, <<>>)
    ELSE IF ~Peek(toks, pos, "ident") THEN ParseErr(pos)
    ELSE ParseHeader(toks, pos + 1, Append(margs, toks[pos].text))

Parse(toks) == ParseHeader(toks, 1, <<>>)

(***************************************************************************)
(* Vec::remove(0): panics on an empty vector.                              *)
(***************************************************************************)
RemoveFirst(v) ==
    IF Len(v) = 0 THEN [panic |-> TRUE, item |-> <<>>]
    ELSE [panic |-> FALSE, item |-> v[1]]

(***************************************************************************)
(* quote::TokenStreamExt::append_terminated / append_separated applied to  *)
(* a vector of identifiers.                                                *)
(***************************************************************************)
RECURSIVE AppendTerminated(_, _, _)
AppendTerminated(items, args, term) ==
    IF args = <<>> THEN items
    ELSE AppendTerminated(items \o <<IdentTok(Head(args)), term>>, Tail(args), term)

RECURSIVE AppendSeparated(_, _, _, _)
AppendSeparated(items, args, sep, first) ==
    IF args = <<>> THEN items
    ELSE AppendSeparated(
            (IF first THEN items ELSE Append(items, sep)) \o <<IdentTok(Head(args))>>,
            Tail(args), sep, FALSE)

(***************************************************************************)
(* The `for arg in method_args` loop of the name/value branch.             *)
(***************************************************************************)
RECURSIVE NamedItems(_, _)
NamedItems(items, args) ==
    IF args = <<>> THEN items
    ELSE LET arg == Head(args)
             sepd == IF items # <<>> THEN Append(items, Comma) ELSE items
             name_value == <<LitStrTok(ToUppercase(arg)), Comma, IdentTok(arg)>>
         IN  NamedItems(Append(sepd, GroupTok(name_value)), Tail(args))

EmitOk(toks) == [panic |-> FALSE, tokens |-> toks]
EmitPanic == [panic |-> TRUE, tokens |-> <<>>]

\* Variant: list equality is tested before the single-parameter case.
EmitEqualityFirst(margs, sargs) ==
    IF margs = sargs THEN
        IF Len(margs) = 2
        THEN EmitOk(<<GroupTok(Append(AppendTerminated(<<>>, margs, Comma),
                                      GroupTok(<<>>)))>>)
        ELSE EmitOk(<<GroupTok(AppendSeparated(<<>>, margs, Comma, TRUE))>>)
    ELSE IF Len(margs) = 1 THEN
        LET r == RemoveFirst(margs)
        IN  IF r.panic THEN EmitPanic ELSE EmitOk(<<IdentTok(r.item)>>)
    ELSE EmitOk(<<GroupTok(NamedItems(<<>>, margs))>>)

\* Variant: the two-parameter tuple is emitted without the unit.
EmitNoPad(margs, sargs) ==
    IF Len(margs) = 1 THEN
        LET r == RemoveFirst(margs)
        IN  IF r.panic THEN EmitPanic ELSE EmitOk(<<IdentTok(r.item)>>)
    ELSE IF margs = sargs THEN
        EmitOk(<<GroupTok(AppendSeparated(<<>>, margs, Comma, TRUE))>>)
    ELSE EmitOk(<<GroupTok(NamedItems(<<>>, margs))>>)

\* Variant: the unit is appended for two or more parameters.
EmitPadFromTwo(margs, sargs) ==
    IF Len(margs) = 1 THEN
        LET r == RemoveFirst(margs)
        IN  IF r.panic THEN EmitPanic ELSE EmitOk(<<IdentTok(r.item)>>)
    ELSE IF margs = sargs THEN
        IF Len(margs) >= 2
        THEN EmitOk(<<GroupTok(Append(AppendTerminated(<<>>, margs, Comma),
                                      GroupTok(<<>>)))>>)
        ELSE EmitOk(<<GroupTok(AppendSeparated(<<>>, margs, Comma, TRUE))>>)
    ELSE EmitOk(<<GroupTok(NamedItems(<<>>, margs))>>)

\* Variant: the lists are compared by length only.
EmitCompareLen(margs, sargs) ==
    IF Len(margs) = 1 THEN
        LET r == RemoveFirst(margs)
        IN  IF r.panic THEN EmitPanic ELSE EmitOk(<<IdentTok(r.item)>>)
    ELSE IF Len(margs) = Len(sargs) THEN
        IF Len(margs) = 2
        THEN EmitOk(<<GroupTok(Append(AppendTerminated(<<>>, margs, Comma),
                                      GroupTok(<<>>)))>>)
        ELSE EmitOk(<<GroupTok(AppendSeparated(<<>>, margs, Comma, TRUE))>>)
    ELSE EmitOk(<<GroupTok(NamedItems(<<>>, margs))>>)

\* Variant: the single-parameter case is taken for at most one parameter.
EmitDirectUpToOne(margs, sargs) ==
    IF Len(margs) <= 1 THEN
        LET r == RemoveFirst(margs)
        IN  IF r.panic THEN EmitPanic ELSE EmitOk(<<IdentTok(r.item)>>)
    ELSE IF margs = sargs THEN
        IF Len(margs) = 2
        THEN EmitOk(<<GroupTok(Append(AppendTerminated(<<>>, margs, Comma),
                                      GroupTok(<<>>)))>>)
        ELSE EmitOk(<<GroupTok(AppendSeparated(<<>>, margs, Comma, TRUE))>>)
    ELSE EmitOk(<<GroupTok(NamedItems(<<>>, margs))>>)

(***************************************************************************)
(* Body of `map` after parsing: the three-way decision and its output.     *)
(***************************************************************************)
Emit(margs, sargs) ==
    IF Len(margs) = 1 THEN
        LET r == RemoveFirst(margs)
        IN  IF r.panic THEN EmitPanic ELSE EmitOk(<<IdentTok(r.item)>>)
    ELSE IF margs = sargs THEN
        IF Len(margs) = 2
        THEN EmitOk(<<GroupTok(Append(AppendTerminated(<<>>, margs, Comma),
                                      GroupTok(<<>>)))>>)
        ELSE EmitOk(<<GroupTok(AppendSeparated(<<>>, margs, Comma, TRUE))>>)
    ELSE EmitOk(<<GroupTok(NamedItems(<<>>, margs))>>)

(***************************************************************************)
(* The invocations that are checked: every invocation of the grammar       *)
(* within the bounds, every short token sequence, and every single-token   *)
(* edit of a small invocation of the grammar.                              *)
(***************************************************************************)
SeqsUpTo(S, n) == UNION {[1..k -> S] : k \in 0..n}

HeaderTokens(h) == [i \in 1..Len(h) |-> IdentTok(h[i])]

\* r is the sequence of placeholders, each a pair <<marker, identifier>>.
BodyTokens(r, trailing) ==
    [i \in 1..(3 * Len(r)) |->
        LET p == r[(i + 2) \div 3]
        IN  IF i % 3 = 1 THEN SqlText
            ELSE IF i % 3 = 2 THEN p[1]
            ELSE IdentTok(p[2])]
    \o (IF trailing THEN <<SqlText>> ELSE <<>>)

\* The placeholders of the identifiers ids, the j-th one by reference and
\* the others by value (all by value for j = 0).
Placeholders(ids, j) ==
    [i \in 1..Len(ids) |-> <<IF i = j THEN Pound ELSE Colon, ids[i]>>]

\* An invocation of the grammar within the bounds; the template ends with
\* a literal or, when all placeholders are by value, also with a placeholder.
WellFormed(toks) ==
    \E h \in SeqsUpTo(Idents, MaxArgs), ids \in SeqsUpTo(Idents, MaxRefs), t \in BOOLEAN :
        \E j \in 0..Len(ids) :
            /\ j = 0 \/ t
            /\ toks = HeaderTokens(h) \o <<FatArrow>> \o BodyTokens(Placeholders(ids, j), t)

\* A short sequence of arbitrary tokens.
ArbTokens == {IdentTok(name), FatArrow, SqlText, Colon, Pound, Other}
Arbitrary(toks) == toks \in SeqsUpTo(ArbTokens, MaxTokens)

\* A small invocation of the grammar with one token deleted or replaced.
EditBase ==
    {HeaderTokens(h) \o <<FatArrow>> \o BodyTokens(r, t) :
        h \in SeqsUpTo({a1}, MaxEditArgs),
        r \in SeqsUpTo(Markers \X {a1}, MaxEditRefs),
        t \in BOOLEAN}
Deleted(w, i) == SubSeq(w, 1, i - 1) \o SubSeq(w, i + 1, Len(w))
Replaced(w, i, t) == [w EXCEPT ![i] = t]
Edited(toks) ==
    \E w \in EditBase :
        \E i \in 1..Len(w) :
            \/ toks = Deleted(w, i)
            \/ \E t \in ArbTokens : toks = Replaced(w, i, t)

(***************************************************************************)
(* State machine: one macro expansion.                                     *)
(***************************************************************************)
Init ==
    /\ \/ WellFormed(input)
       \/ Arbitrary(input)
       \/ Edited(input)
    /\ pc = "start"
    /\ method_args = <<>>
    /\ sql_args = <<>>
    /\ result = "none"
    /\ tokens = <<>>

\* `map`: parse_macro_input! returns the diagnostic on a parse error,
\* otherwise the body emits the output expression.
MapMacro ==
    /\ pc = "start"
    /\ LET parsed == Parse(input)
       IN  IF ~parsed.ok
           THEN /\ result' = "error"
                /\ method_args' = <<>>
                /\ sql_args' = <<>>
                /\ tokens' = <<>>
           ELSE LET out == Emit(parsed.method_args, parsed.sql_args)
                IN  /\ result' = IF out.panic THEN "panic" ELSE "ok"
                    /\ method_args' = parsed.method_args
                    /\ sql_args' = parsed.sql_args
                    /\ tokens' = out.tokens
    /\ pc' = "done"
    /\ UNCHANGED input

Next == MapMacro

Spec == Init /\ [][Next]_vars

Done == pc = "done"
Accepted == pc = "done" /\ result = "ok"

TypeOK ==
    /\ pc \in {"start", "done"}
    /\ result \in {"none", "ok", "error", "panic"}

(***************************************************************************)
(* Vocabulary of the properties: the shape of an output expression and     *)
(* the structure of an invocation, stated on the token sequences alone.    *)
(***************************************************************************)
Unit == GroupTok(<<>>)

\* The elements of a tuple expression: its items split at the commas, a
\* trailing comma closing the last element.
RECURSIVE TupleElems(_, _, _)
TupleElems(items, cur, acc) ==
    IF items = <<>> THEN (IF cur = <<>> THEN acc ELSE Append(acc, cur))
    ELSE IF Head(items).kind = "comma" THEN TupleElems(Tail(items), <<>>, Append(acc, cur))
    ELSE TupleElems(Tail(items), Append(cur, Head(items)), acc)

IsTuple(out) == Len(out) = 1 /\ out[1].kind = "group"
ElemsOf(out) == TupleElems(out[1].stream, <<>>, <<>>)

IsBare(out) == Len(out) = 1 /\ out[1].kind = "ident"
IsValue(e) == Len(e) = 1 /\ e[1].kind = "ident"
IsPair(e) ==
    /\ Len(e) = 1 /\ e[1].kind = "group"
    /\ LET s == e[1].stream
       IN  Len(s) = 3 /\ s[1].kind = "lit_str" /\ s[2].kind = "comma" /\ s[3].kind = "ident"
IsPositional(out) ==
    /\ IsTuple(out)
    /\ LET es == ElemsOf(out)
       IN  \/ \A i \in 1..Len(es) : IsValue(es[i])
           \/ /\ Len(es) = 3 /\ IsValue(es[1]) /\ IsValue(es[2]) /\ es[3] = <<Unit>>
IsNamed(out) ==
    /\ IsTuple(out)
    /\ LET es == ElemsOf(out) IN \A i \in 1..Len(es) : IsPair(es[i])

\* The uppercase names of the identifiers of the checked invocations,
\* written out.
UpperName(p) ==
    CASE p = a1 -> <<"A", "1">>
      [] p = a2 -> <<"A", "2">>
      [] p = a3 -> <<"A", "3">>
      [] p = name -> <<"N", "A", "M", "E">>
Pair(p) == <<GroupTok(<<LitStrTok(UpperName(p)), Comma, IdentTok(p)>>)>>

\* The invocation as written: the position of the first `=>`, the header
\* before it, the template after it.
HasSep(toks) == \E i \in 1..Len(toks) : toks[i].kind = "fat_arrow"
SepPos(toks) ==
    CHOOSE i \in 1..Len(toks) :
        /\ toks[i].kind = "fat_arrow"
        /\ \A j \in 1..(i - 1) : toks[j].kind # "fat_arrow"
HeaderOf(toks) == SubSeq(toks, 1, SepPos(toks) - 1)
TemplateOf(toks) == SubSeq(toks, SepPos(toks) + 1, Len(toks))
IsMarker(t) == t.kind \in {"colon", "pound"}

\* The texts of the tokens that follow a marker, in order.
RECURSIVE AfterMarkers(_, _)
AfterMarkers(toks, i) ==
    IF i > Len(toks) THEN <<>>
    ELSE IF i > 1 /\ IsMarker(toks[i - 1])
         THEN <<toks[i].text>> \o AfterMarkers(toks, i + 1)
         ELSE AfterMarkers(toks, i + 1)
NumMarkers(toks) == Cardinality({i \in 1..Len(toks) : IsMarker(toks[i])})

(***************************************************************************)
(* C1: an accepted invocation with exactly one declared parameter expands  *)
(* to the bare identifier of that parameter, never a tuple, whatever the   *)
(* Reference List is.                                                      *)
(***************************************************************************)
C1_DirectBare ==
    (Accepted /\ Len(method_args) = 1) =>
        /\ tokens = <<IdentTok(method_args[1])>>
        /\ ~IsTuple(tokens)

C1_Witness ==
    /\ Accepted
    /\ method_args = <<a1>>
    /\ sql_args = <<a1, a1, a1>>
    /\ tokens = <<IdentTok(a1)>>

(***************************************************************************)
(* C2: two declared parameters referenced exactly once each in declared    *)
(* order expand to the tuple (p1, p2, ()); a unit pad as last element      *)
(* occurs in that case and in no other.                                    *)
(***************************************************************************)
HasPad(out) ==
    /\ IsTuple(out)
    /\ LET es == ElemsOf(out) IN Len(es) > 0 /\ es[Len(es)] = <<Unit>>

C2_PositionalPad ==
    Accepted =>
        /\ (Len(method_args) = 2 /\ method_args = sql_args) =>
              /\ IsTuple(tokens)
              /\ ElemsOf(tokens) = <<<<IdentTok(method_args[1])>>,
                                     <<IdentTok(method_args[2])>>,
                                     <<Unit>>>>
        /\ HasPad(tokens) => (Len(method_args) = 2 /\ method_args = sql_args)

C2_Witness ==
    /\ Accepted
    /\ method_args = <<a1, a2>>
    /\ sql_args = <<a1, a2>>
    /\ ElemsOf(tokens) = <<<<IdentTok(a1)>>, <<IdentTok(a2)>>, <<Unit>>>>

(***************************************************************************)
(* C3: three or more declared parameters referenced exactly once each in   *)
(* declared order expand to the flat tuple of the n identifiers in         *)
(* declared order, without names and without pad.                          *)
(***************************************************************************)
C3_PositionalFlat ==
    (Accepted /\ Len(method_args) >= 3 /\ method_args = sql_args) =>
        /\ IsTuple(tokens)
        /\ ElemsOf(tokens) = [i \in 1..Len(method_args) |-> <<IdentTok(method_args[i])>>]

C3_Witness ==
    /\ Accepted
    /\ method_args = <<a1, a2, a3>>
    /\ sql_args = <<a1, a2, a3>>
    /\ ElemsOf(tokens) = <<<<IdentTok(a1)>>, <<IdentTok(a2)>>, <<IdentTok(a3)>>>>

(***************************************************************************)
(* C4: when the declared list is not of length one and differs from the    *)
(* Reference List, the expansion is the tuple of the n pairs               *)
(* (UPPER(p_i), p_i) in declared order; it is determined by the declared   *)
(* list alone.                                                             *)
(***************************************************************************)
C4_Named ==
    (Accepted /\ Len(method_args) # 1 /\ method_args # sql_args) =>
        /\ IsTuple(tokens)
        /\ ElemsOf(tokens) = [i \in 1..Len(method_args) |-> Pair(method_args[i])]

C4_Witness ==
    /\ Accepted
    /\ method_args = <<a1, a2>>
    /\ sql_args = <<a3, a2, a2>>
    /\ ElemsOf(tokens) = <<Pair(a1), Pair(a2)>>

(***************************************************************************)
(* C5: whatever the parser returns, including an empty declared list, an   *)
(* empty Reference List and repeated declared identifiers, the expansion   *)
(* does not fail and has the one shape the decision order selects: bare    *)
(* for n = 1, positional for equal lists, name/value pairs otherwise.  A   *)
(* bare value is never a tuple, and a non-empty tuple is never both        *)
(* positional and named.                                                   *)
(***************************************************************************)
C5_Total ==
    (Done /\ result # "error") =>
        /\ result = "ok"
        /\ IsBare(tokens) \/ IsPositional(tokens) \/ IsNamed(tokens)
        /\ IsBare(tokens) <=> Len(method_args) = 1
        /\ IsBare(tokens) => ~IsTuple(tokens)
        /\ (Len(method_args) # 1 /\ method_args = sql_args) => IsPositional(tokens)
        /\ (Len(method_args) # 1 /\ method_args # sql_args) => IsNamed(tokens)
        /\ (IsPositional(tokens) /\ IsNamed(tokens)) => tokens = <<Unit>>

C5_Witness ==
    /\ Done
    /\ result = "ok"
    /\ method_args = <<>>
    /\ sql_args = <<a1>>
    /\ tokens = <<Unit>>

(***************************************************************************)
(* C6: an invocation with a marker that is not followed by an identifier,  *)
(* with a token after a literal that is not a marker, or without any `=>`  *)
(* ends in a parse error: no parameter lists and no output expression.     *)
(***************************************************************************)
DanglingMarker(toks) ==
    \E i \in 1..Len(toks) :
        /\ IsMarker(toks[i])
        /\ (i = Len(toks) \/ toks[i + 1].kind # "ident")
BadAfterLiteral(toks) ==
    \E i \in 1..(Len(toks) - 1) :
        /\ toks[i].kind = "lit_str"
        /\ ~IsMarker(toks[i + 1])

C6_GrammarErrors ==
    (Done /\ (DanglingMarker(input) \/ BadAfterLiteral(input) \/ ~HasSep(input))) =>
        /\ result = "error"
        /\ ~Parse(input).ok
        /\ method_args = <<>> /\ sql_args = <<>> /\ tokens = <<>>

C6_Witness ==
    /\ Done
    /\ result = "error"
    /\ input = <<IdentTok(a1), FatArrow, SqlText, Colon>>
    /\ DanglingMarker(input) /\ ~BadAfterLiteral(input) /\ HasSep(input)

(***************************************************************************)
(* C7: replacing any of the markers of an accepted invocation by the other *)
(* marker changes neither the declared list, nor the Reference List, nor   *)
(* the output expression.                                                  *)
(***************************************************************************)
\* The invocation with the markers at the positions F replaced by the
\* other marker.
MarkerPositions(toks) == {i \in 1..Len(toks) : IsMarker(toks[i])}
Flipped(toks, F) ==
    [i \in 1..Len(toks) |->
        IF i \in F THEN (IF toks[i] = Colon THEN Pound ELSE Colon) ELSE toks[i]]

C7_ModeAgnostic ==
    Accepted =>
        \A F \in SUBSET MarkerPositions(input) :
            LET pv == Parse(Flipped(input, F))
            IN  /\ pv.ok
                /\ pv.method_args = method_args
                /\ pv.sql_args = sql_args
                /\ Emit(pv.method_args, pv.sql_args) = EmitOk(tokens)

C7_Witness ==
    /\ Accepted
    /\ input = <<IdentTok(a1), IdentTok(a2), FatArrow,
                 SqlText, Colon, IdentTok(a1), SqlText, Pound, IdentTok(a2), SqlText>>
    /\ sql_args = <<a1, a2>>
    /\ ElemsOf(tokens) = <<<<IdentTok(a1)>>, <<IdentTok(a2)>>, <<Unit>>>>

(***************************************************************************)
(* C8: declared [a1, a2, a3], by-value placeholders a1 then a2, and a3     *)
(* either unreferenced or referenced only through `#` placeholders.        *)
(***************************************************************************)
\* The texts of the tokens that follow a marker of kind k, in order.
RECURSIVE AfterMarker(_, _, _)
AfterMarker(toks, k, i) ==
    IF i > Len(toks) THEN <<>>
    ELSE IF i > 1 /\ toks[i - 1].kind = k
         THEN <<toks[i].text>> \o AfterMarker(toks, k, i + 1)
         ELSE AfterMarker(toks, k, i + 1)

C8_Case ==
    /\ Accepted
    /\ method_args = <<a1, a2, a3>>
    /\ AfterMarker(TemplateOf(input), "colon", 1) = <<a1, a2>>
    /\ \A i \in 1..Len(AfterMarker(TemplateOf(input), "pound", 1)) :
          AfterMarker(TemplateOf(input), "pound", 1)[i] = a3

NamedA123 == <<Pair(a1), Pair(a2), Pair(a3)>>

\* C8 as stated: in every such case the Reference List is [a1, a2] and
\* the output is the name/value tuple.
C8_Original ==
    C8_Case => (sql_args = <<a1, a2>> /\ ElemsOf(tokens) = NamedA123)

\* C8 amended: with a3 unreferenced the Reference List is [a1, a2] and the
\* output is the name/value tuple; a `#a3` placeholder puts a3 into the
\* Reference List at its place, and the output is the positional tuple
\* (a1, a2, a3) when the Reference List is [a1, a2, a3] and the
\* name/value tuple otherwise.
C8_Amended ==
    C8_Case =>
        /\ sql_args = AfterMarkers(TemplateOf(input), 1)
        /\ Len(sql_args) = 2 + Len(AfterMarker(TemplateOf(input), "pound", 1))
        /\ (AfterMarker(TemplateOf(input), "pound", 1) = <<>>) =>
              (sql_args = <<a1, a2>> /\ ElemsOf(tokens) = NamedA123)
        /\ (sql_args = <<a1, a2, a3>>) =>
              ElemsOf(tokens) = <<<<IdentTok(a1)>>, <<IdentTok(a2)>>, <<IdentTok(a3)>>>>
        /\ (sql_args # <<a1, a2, a3>>) => ElemsOf(tokens) = NamedA123

C8_Witness ==
    /\ C8_Case
    /\ AfterMarker(TemplateOf(input), "pound", 1) = <<a3>>
    /\ sql_args = <<a1, a2, a3>>
    /\ ElemsOf(tokens) = <<<<IdentTok(a1)>>, <<IdentTok(a2)>>, <<IdentTok(a3)>>>>

(***************************************************************************)
(* C9: for an accepted invocation the declared list is the identifiers     *)
(* before `=>` in written order and the Reference List is the identifiers  *)
(* of the placeholders after `=>` in template order, one per placeholder,  *)
(* duplicates kept; neither list takes an identifier from the other part.  *)
(***************************************************************************)
C9_ListsAsWritten ==
    Accepted =>
        /\ HasSep(input)
        /\ \A i \in 1..Len(HeaderOf(input)) : HeaderOf(input)[i].kind = "ident"
        /\ method_args = [i \in 1..Len(HeaderOf(input)) |-> HeaderOf(input)[i].text]
        /\ sql_args = AfterMarkers(TemplateOf(input), 1)
        /\ Len(sql_args) = NumMarkers(TemplateOf(input))
        /\ Len(input) = Len(method_args) + 1 + Len(TemplateOf(input))

C9_Witness ==
    /\ Accepted
    /\ method_args = <<a2, a1>>
    /\ sql_args = <<a3, a1, a3>>
    /\ NumMarkers(TemplateOf(input)) = 3

(***************************************************************************)
(* C10: the structure of an accepted template.                             *)
(***************************************************************************)
AlternatesFrom(body) ==
    /\ \A i \in 1..Len(body) :
          IsMarker(body[i]) =>
              /\ i > 1 /\ body[i - 1].kind = "lit_str"
              /\ (i > 2 => body[i - 2].kind # "lit_str")
              /\ i < Len(body) /\ body[i + 1].kind = "ident"
    /\ \A i \in 1..Len(body) :
          body[i].kind \in {"lit_str", "colon", "pound", "ident"}
    /\ \A i \in 1..Len(body) :
          body[i].kind = "ident" => (i > 1 /\ IsMarker(body[i - 1]))
    /\ \A i \in 1..(Len(body) - 1) :
          ~(body[i].kind = "lit_str" /\ body[i + 1].kind = "lit_str")

\* C10 as stated: every accepted template starts with a literal (so an
\* empty template is rejected) and every placeholder is preceded by
\* exactly one literal.
C10_Original ==
    Accepted =>
        /\ TemplateOf(input) # <<>>
        /\ TemplateOf(input)[1].kind = "lit_str"
        /\ AlternatesFrom(TemplateOf(input))

\* C10 amended: an accepted template is empty or starts with a literal,
\* and in it every placeholder is preceded by exactly one literal; a
\* template that starts with a marker, two adjacent literals and two
\* adjacent placeholders are rejected.
C10_Amended ==
    Accepted =>
        /\ (TemplateOf(input) = <<>> \/ TemplateOf(input)[1].kind = "lit_str")
        /\ AlternatesFrom(TemplateOf(input))

C10_Witness ==
    /\ Accepted
    /\ TemplateOf(input) = <<SqlText, Colon, IdentTok(a1), SqlText, Pound, IdentTok(a1), SqlText>>
====
